---- MODULE Spec2Model ----
(***************************************************************************)
(* The resumable T-REX factory deployment script (src/unnamed/part_000,    *)
(* lines 49-529): one process at a time walks a fixed plan of unit         *)
(* deployments and configuration actions, keeps its belief in the          *)
(* in-memory object deploymentState and flushes it to the file             *)
(* deployment-state.json.  A behaviour is a sequence of runs of main();    *)
(* a run ends by returning (exit 0), by an uncaught error (exit 1) or by   *)
(* being terminated from outside between two of its steps.                 *)
(*                                                                         *)
(* Spec is that behaviour.  SpecTorn adds the kill that cuts a write of    *)
(* the file short, SpecEdited a file edited between two runs, SpecRetry    *)
(* is the script run three times without --force on an environment in      *)
(* which only the chain fails, and SpecLive is the script run without      *)
(* --force for ever on an environment that stops failing.                  *)
(*                                                                         *)
(* Step numbers are the script's step numbers times ten (1.1 is 11), so    *)
(* that they are integers.  An address is the pair <<unit, n>>: the n-th   *)
(* instance of the unit ever constructed on the chain.                     *)
(***************************************************************************)
EXTENDS Integers, Sequences, FiniteSets, TLC

\* ------------------------------------------------------------------ bounds
\* Number of runs of main() in one behaviour.
MaxRuns == 2
\* Number of code-presence queries, over a whole behaviour, that answer
\* anything but "code is there".
MaxAbsent == 1
\* Number of addresses changed in the file from outside.
MaxEdits == 1
\* Number of runs when every run is a non-force run on an environment in
\* which only the chain fails.
MaxRetries == 3
\* Number of runs in which the chain and the resolver may fail, and the
\* process may be killed, before they stop doing so.
MaxFailing == 1

\* --------------------------------------------------------------- the plan
Units == {"TokenImplementation", "ClaimTopicsRegistryImplementation",
          "TrustedIssuersRegistryImplementation",
          "IdentityRegistryStorageImplementation",
          "IdentityRegistryImplementation", "ModularComplianceImplementation",
          "IdentityImplementation", "IdentityImplementationAuthority",
          "IdentityFactory", "TREXImplementationAuthority", "TREXFactory",
          "IAFactory"}

Flags == {"versionConfigured", "identityFactoryConfigured",
          "trexFactoryConfigured", "iaFactoryConfigured"}

NoName == "null"
NoAddr == << >>
NoId == "null"
NoFile == [nofile |-> TRUE]
NoCall == [kind |-> "none"]
NoAnswer == "none"

\* A file that cannot be read or parsed: the text of a write cut short.
Unreadable == [unreadable |-> TRUE]
\* What a load that lets the error of lines 110-111 escape hands to main().
LoadThrows == [throws |-> TRUE]

\* A string that is no address (ethers.utils.isAddress is false on it).
InvalidAddr == << "0xnothex" >>

\* accounts[0] as the provider lists it (line 182).
Identities == {"0xAcc1", "0xAcc2"}

\* provider.getCode(address): the code found, "0x" or "0x0" for none, or the
\* query throws.
GetCodeResults == {"0x6080", "0x", "0x0", "throws"}
\* The answer of a query that finds code at the address.
CodeThere == "0x6080"

\* getContractArtifact / getOnchainIDContractFactory: the factory, or one of
\* the two errors a known name can raise.
ResolverResults == {"factory", "not found", "missing abi or bytecode"}

\* error.message of a failed invoke, as a sequence of words.
Messages == { <<"execution", "reverted", "already", "a", "TokenFactory">>,
              <<"factory", "already", "set">>,
              <<"same", "address">>,
              <<"Already", "Set">>,
              <<"already", "a", "tokenfactory">>,
              <<"nonce", "too", "low">> }

Step(n) == [op |-> "progress", step |-> n, unit |-> NoName, args |-> << >>,
            flag |-> NoName, patterns |-> {}]
StepDone(n, u) == [op |-> "progress", step |-> n, unit |-> u, args |-> << >>,
                   flag |-> NoName, patterns |-> {}]
Deploy(u, a) == [op |-> "deploy", step |-> 0, unit |-> u, args |-> a,
                 flag |-> NoName, patterns |-> {}]
Configure(f, target, a, pats) ==
    [op |-> "configure", step |-> 0, unit |-> target, args |-> a,
     flag |-> f, patterns |-> pats]
Complete == [op |-> "complete", step |-> 0, unit |-> NoName, args |-> << >>,
             flag |-> NoName, patterns |-> {}]

AlreadySet == { <<"already", "set">>, <<"same">> }

\* main(), lines 318-499, in program order, one definition per numbered
\* step of the script.  args lists the units whose address a call takes;
\* literal arguments are left out.
Step1Implementations == <<
    Step(10),
    Deploy("TokenImplementation", << >>),
    StepDone(11, "TokenImplementation"),
    Deploy("ClaimTopicsRegistryImplementation", << >>),
    StepDone(12, "ClaimTopicsRegistryImplementation"),
    Deploy("TrustedIssuersRegistryImplementation", << >>),
    StepDone(13, "TrustedIssuersRegistryImplementation"),
    Deploy("IdentityRegistryStorageImplementation", << >>),
    StepDone(14, "IdentityRegistryStorageImplementation"),
    Deploy("IdentityRegistryImplementation", << >>),
    StepDone(15, "IdentityRegistryImplementation"),
    Deploy("ModularComplianceImplementation", << >>),
    StepDone(16, "ModularComplianceImplementation") >>

Step2OnchainID == <<
    Step(20),
    Deploy("IdentityImplementation", << >>),
    StepDone(21, "IdentityImplementation"),
    Deploy("IdentityImplementationAuthority", <<"IdentityImplementation">>),
    StepDone(22, "IdentityImplementationAuthority"),
    Deploy("IdentityFactory", <<"IdentityImplementationAuthority">>),
    StepDone(23, "IdentityFactory") >>

Step3Authority == <<
    Step(30),
    Deploy("TREXImplementationAuthority", << >>),
    StepDone(31, "TREXImplementationAuthority"),
    Configure("versionConfigured", "TREXImplementationAuthority",
              <<"TokenImplementation", "ClaimTopicsRegistryImplementation",
                "IdentityRegistryImplementation",
                "IdentityRegistryStorageImplementation",
                "TrustedIssuersRegistryImplementation",
                "ModularComplianceImplementation">>, {}),
    Step(32) >>

Step4Factory == <<
    Step(40),
    Deploy("TREXFactory", <<"TREXImplementationAuthority", "IdentityFactory">>),
    StepDone(41, "TREXFactory") >>

Step5IdentityFactory == <<
    Step(50),
    Configure("identityFactoryConfigured", "IdentityFactory", <<"TREXFactory">>,
              { <<"already", "a", "TokenFactory">> }),
    Step(51) >>

Step6IAFactory == <<
    Step(60),
    Deploy("IAFactory", <<"TREXFactory">>),
    StepDone(61, "IAFactory") >>

Step7Final == <<
    Step(70),
    Configure("trexFactoryConfigured", "TREXImplementationAuthority",
              <<"TREXFactory">>, AlreadySet),
    Configure("iaFactoryConfigured", "TREXImplementationAuthority",
              <<"IAFactory">>, AlreadySet),
    Step(71) >>

Step8Completed == << Step(80), Complete >>

\* A plan whose step 4 comes before step 2: TREXFactory is constructed
\* before the IdentityFactory it takes.
PlanFactoryFirst ==
    Step1Implementations \o Step3Authority \o Step4Factory \o Step2OnchainID
    \o Step5IdentityFactory \o Step6IAFactory \o Step7Final \o Step8Completed

Plan ==
    Step1Implementations \o Step2OnchainID \o Step3Authority \o Step4Factory
    \o Step5IdentityFactory \o Step6IAFactory \o Step7Final \o Step8Completed

\* ------------------------------------------------------------- the state
VARIABLES
    disk,        \* deployment-state.json: NoFile or the last state saved
    mem,         \* deploymentState of the running process
    handle,      \* the contract objects main() holds: unit -> address
    pending,     \* deployIfNeeded between line 160 and line 163: the address
    pc,          \* index into Plan of the step the run is at
    status,      \* "idle", "running", "done", "aborted", "terminated"
    forceRedeploy,
    runs,        \* runs started so far (also the clock of the timestamps)
    made,        \* chain: unit -> number of instances ever constructed
    absents,     \* queries so far that did not answer "code is there"
    \* what the run has done so far, kept for the properties
    loaded,      \* the state loadExistingDeployment returned, or NoFile
    deploys,     \* unit -> deploy calls issued by this run
    invokes,     \* flag -> invoke calls issued by this run
    reported,    \* units some query of this run reported absent
    recovered,   \* flags set by this run on an "already done" error
    lastCall,    \* the latest deploy or invoke call of this run
    cause,       \* why the run aborted
    previous,    \* the action, or the unit, whose fatal error aborted the
                 \* run before this one, "none" if that run did not end so
    found,       \* what the run found where the file is: "missing",
                 \* "unreadable", "ledger", or "not read"
    verified,    \* units whose address the verification loop checked
    answers,     \* unit -> the answer of the run's latest getCode on its
                 \* cached address, NoAnswer if none was asked
    resolvedAs,  \* the outcome of the run's latest resolver call
    account0,    \* accounts[0] as the run read it (lines 182, 230)
    edits,       \* addresses changed in the file from outside
    flagged,     \* flags some file written since the last force run began
                 \* has held true
    built,       \* chain: unit -> the constructor arguments of its
                 \* instances, in the order of their construction
    landed       \* chain: flag -> the addresses (target, then arguments)
                 \* on which the action was invoked or found already done

vars == << disk, mem, handle, pending, pc, status, forceRedeploy,
           runs, made, absents, loaded, deploys, invokes, reported, recovered,
           lastCall, cause, previous, found, verified, answers, resolvedAs,
           account0, edits, flagged, built, landed >>

\* ------------------------------------------------------ helpers of main()
\* The object literal of lines 70-79, created at time now.
deploymentState0(now) ==
    [timestamp |-> now, deployer |-> NoId,
     contracts |-> [u \in Units |-> NoAddr],
     progress |-> [step |-> 0] @@ [f \in Flags |-> FALSE],
     completed |-> FALSE, completedAt |-> 0]

\* A save that keeps the addresses a file already holds for the units the
\* state no longer lists (a read-modify-write instead of an overwrite).
savesOverOldFile(state, file) ==
    IF file = NoFile THEN state
    ELSE [state EXCEPT !.contracts =
             [u \in Units |-> IF @[u] # NoAddr THEN @[u]
                              ELSE file.contracts[u]]]

\* A save that writes the addresses only into a new file and leaves those
\* of a file that is there as they are.
savesNoNewAddress(state, file) ==
    IF file = NoFile THEN state
    ELSE [state EXCEPT !.contracts = file.contracts]

\* saveDeploymentState, lines 82-88: the new content of the file, which
\* writeFileSync overwrites with the whole state.
saveDeploymentState(state, file) == state

isAddress(address) == address # NoAddr /\ Len(address) = 2

\* A check without the try/catch of lines 130-135 in which a query that
\* throws counts as an answer other than "0x" and "0x0".
trustsOnThrow(address, code) ==
    IF address = NoAddr \/ ~isAddress(address)
    THEN FALSE
    ELSE code # "0x" /\ code # "0x0"

\* isContractDeployed, lines 125-136.
isContractDeployed(address, code) ==
    IF address = NoAddr \/ ~isAddress(address)
    THEN FALSE
    ELSE IF code = "throws" THEN FALSE
         ELSE code # "0x" /\ code # "0x0"

\* updateProgress without its save: the state it leaves in memory.
updateProgress(state, step, contractName, contractAddress) ==
    LET s1 == [state EXCEPT !.progress.step = step]
    IN  IF contractName # NoName /\ contractAddress # NoAddr
        THEN [s1 EXCEPT !.contracts[contractName] = contractAddress]
        ELSE s1

\* Lines 110-111: readFileSync and JSON.parse give the ledger or throw.
readLedger(file) == IF file = Unreadable THEN LoadThrows ELSE file

\* A load without the try/catch of lines 106 and 118-120.
loadsWithoutCatch(file) ==
    IF file = NoFile THEN NoFile ELSE readLedger(file)

\* loadExistingDeployment, lines 105-122: the parsed file, or null when
\* there is no file (line 109) or reading it throws (lines 118-120).
loadExistingDeployment(file) ==
    IF file = NoFile THEN NoFile
    ELSE IF readLedger(file) = LoadThrows THEN NoFile
    ELSE readLedger(file)

\* What a run finds where the file is.
fileKind(file) ==
    IF file = NoFile THEN "missing"
    ELSE IF file = Unreadable THEN "unreadable"
    ELSE "ledger"

\* Line 185: a force run does not read the file.
existingFor(force, file) ==
    IF ~force THEN loadExistingDeployment(file) ELSE NoFile

\* Line 186: the loaded state is merged only outside force mode.
mergesExisting(force, existingDeployment) ==
    existingDeployment # NoFile /\ ~force

\* A merge that leaves the deployer out.
mergesWithoutDeployer(state, existingDeployment) ==
    [state EXCEPT !.contracts = existingDeployment.contracts,
                  !.progress = existingDeployment.progress]

\* Lines 190-192: what a non-force run takes over from the file.
mergeExisting(state, existingDeployment) ==
    [state EXCEPT !.contracts = existingDeployment.contracts,
                  !.progress = existingDeployment.progress,
                  !.deployer = existingDeployment.deployer]

\* A run that goes on over a completed ledger.
neverReturnsEarly(existingDeployment) == FALSE

\* Line 195: a completed deployment makes main() return at once.
returnsEarly(existingDeployment) == existingDeployment.completed

\* Lines 226-227: the reset of a force run.
forceReset(state) ==
    [state EXCEPT !.contracts = [u \in Units |-> NoAddr],
                  !.progress = [step |-> 0] @@ [f \in Flags |-> FALSE]]

\* A verification loop that forgets to delete what it found dead.
keepsDeadContracts(state, contractsToRemove) == state

\* Line 220: the units the verification loop found dead are deleted.
removeContracts(state, contractsToRemove) ==
    [state EXCEPT !.contracts =
        [u \in Units |-> IF u \in contractsToRemove THEN NoAddr ELSE @[u]]]

\* A deployIfNeeded that never takes the skip branch.
neverSkipsDeploy(force, address, code) == FALSE

\* deployIfNeeded, lines 141-147: the cached address is returned.
skipsDeploy(force, address, code) ==
    ~force /\ address # NoAddr /\ isContractDeployed(address, code)

\* deployIfNeeded, lines 148-155: the cached address is deleted in memory.
deletesCached(force, address, code) ==
    address # NoAddr /\ (force \/ ~isContractDeployed(address, code))

\* String.prototype.includes on messages taken as sequences of words.
includes(message, pattern) ==
    \E i \in 1..(Len(message) - Len(pattern) + 1) :
        SubSeq(message, i, i + Len(pattern) - 1) = pattern

\* A catch block that swallows every error.
swallowsEveryError(message, patterns) == TRUE

\* The catch blocks of lines 425-431, 457-463, 475-481.
alreadyDone(message, patterns) == \E p \in patterns : includes(message, p)

\* A guard that ignores the flag.
alwaysConfigures(state, flag) == TRUE

\* Lines 375-376, 419, 451, 469: whether the action is invoked.  For the
\* version action the test also covers a missing authority address.
needsConfig(state, flag) ==
    IF flag = "versionConfigured"
    THEN state.contracts["TREXImplementationAuthority"] = NoAddr
         \/ ~state.progress[flag]
    ELSE ~state.progress[flag]

\* A resolver that accepts an artifact without interface or binary.
throwsOnlyNotFound(resolved) == resolved = "not found"

\* Lines 266-274 and 305-313: the resolver throws unless it finds a whole
\* artifact.
resolverThrows(resolved) == resolved # "factory"

\* A completion that sets no completion time.
completesWithoutTime(state, now) == [state EXCEPT !.completed = TRUE]

\* Lines 490-491: completed and completedAt are set together.
markCompleted(state, now) ==
    [state EXCEPT !.completed = TRUE, !.completedAt = now]

AddressesOf(units) == [i \in DOMAIN units |-> handle[units[i]]]

Cached(state) == {u \in Units : state.contracts[u] # NoAddr}

\* A verification loop that checks no unit.
verifiesNone(state) == {}

\* Line 209: the loop runs over every entry of deploymentState.contracts.
verifiedContracts(state) == Cached(state)

\* Lines 126-131: getCode is called only on an address that is one.
asksChain(address) == address # NoAddr /\ isAddress(address)

\* The subsets of S of at most k elements.
RECURSIVE UpTo(_, _)
UpTo(S, k) ==
    IF k = 0 THEN { {} }
    ELSE LET smaller == UpTo(S, k - 1)
         IN  smaller \cup {T \cup {x} : T \in smaller, x \in S}

\* The answers the chain may give to the verification loop of lines
\* 209-217: one per checked unit whose address is one, and code is there
\* for all but a few of them.
Verifications(state) ==
    LET asked == {u \in verifiedContracts(state) :
                     asksChain(state.contracts[u])}
    IN  UNION { { [u \in Units |-> IF u \in D THEN b[u]
                                   ELSE IF u \in asked THEN CodeThere
                                   ELSE NoAnswer] :
                  b \in [D -> GetCodeResults \ {CodeThere}] } :
                D \in UpTo(asked, MaxAbsent - absents) }

\* Lines 208-217: the units the loop finds not deployed.
contractsToRemove(state, codes) ==
    {u \in verifiedContracts(state) :
        ~isContractDeployed(state.contracts[u], codes[u])}

\* The flags a ledger holds true.
TrueFlags(state) == {f \in Flags : state.progress[f]}

\* ------------------------------------------------------------------ Init
Init ==
    /\ disk = NoFile
    /\ mem = deploymentState0(0)
    /\ handle = [u \in Units |-> NoAddr]
    /\ pending = NoAddr
    /\ pc = 0
    /\ status = "idle"
    /\ forceRedeploy = FALSE
    /\ runs = 0
    /\ made = [u \in Units |-> 0]
    /\ absents = 0
    /\ loaded = NoFile
    /\ deploys = [u \in Units |-> 0]
    /\ invokes = [f \in Flags |-> 0]
    /\ reported = {}
    /\ recovered = {}
    /\ lastCall = NoCall
    /\ cause = "none"
    /\ previous = "none"
    /\ found = "not read"
    /\ verified = {}
    /\ answers = [u \in Units |-> NoAnswer]
    /\ resolvedAs = "none"
    /\ account0 = NoId
    /\ edits = 0
    /\ flagged = {}
    /\ built = [u \in Units |-> << >>]
    /\ landed = [f \in Flags |-> {}]

\* --------------------------------------------------------------- actions
\* An uncaught error: main() rejects and the process exits with code 1.
Abort(why) ==
    /\ status' = "aborted"
    /\ cause' = why

FreshHistory ==
    /\ deploys' = [u \in Units |-> 0]
    /\ invokes' = [f \in Flags |-> 0]
    /\ recovered' = {}
    /\ lastCall' = NoCall
    /\ pending' = NoAddr
    /\ handle' = [u \in Units |-> NoAddr]
    /\ resolvedAs' = "none"
    /\ account0' = NoId

\* main() from line 62 to line 228: the force flag, the fresh state object,
\* the load and merge, the early return of a completed deployment, the
\* verification loop and the force reset.  Nothing is saved here.  An
\* error loadExistingDeployment let escape would reject main(); its catch
\* block lets none escape.  now is the time on the clock.
StartAt(force, now) ==
    /\ status # "running"
    /\ runs' = now
    /\ forceRedeploy' = force
    /\ FreshHistory
    /\ previous' = IF status = "aborted" /\ cause \in Flags THEN cause
                   ELSE IF status = "aborted" /\ cause = "deploy"
                        THEN lastCall.name
                        ELSE "none"
    /\ found' = IF force THEN "not read" ELSE fileKind(disk)
    /\ flagged' = IF force THEN {} ELSE flagged
    /\ UNCHANGED << disk, made, edits, built, landed >>
    /\ LET state == deploymentState0(now)
           existingDeployment == existingFor(force, disk)
           nothingVerified ==
               /\ reported' = {}
               /\ absents' = absents
               /\ verified' = {}
               /\ answers' = [u \in Units |-> NoAnswer]
       IN  IF existingDeployment = LoadThrows
           THEN /\ loaded' = NoFile
                /\ mem' = state
                /\ Abort("load")
                /\ pc' = 0
                /\ nothingVerified
           ELSE
           /\ loaded' = existingDeployment
           /\ cause' = "none"
           /\ IF mergesExisting(force, existingDeployment)
              THEN LET merged == mergeExisting(state, existingDeployment)
                   IN  IF returnsEarly(existingDeployment)
                       THEN /\ mem' = merged
                            /\ status' = "done"
                            /\ pc' = 0
                            /\ nothingVerified
                       ELSE \E codes \in Verifications(merged) :
                            LET dead == contractsToRemove(merged, codes)
                            IN  /\ absents' = absents + Cardinality(
                                       {u \in Units :
                                           codes[u] \notin {NoAnswer, CodeThere}})
                                /\ reported' = dead
                                /\ verified' = verifiedContracts(merged)
                                /\ answers' = codes
                                /\ mem' = removeContracts(merged, dead)
                                /\ status' = "running"
                                /\ pc' = 0
              ELSE /\ mem' = IF force THEN forceReset(state) ELSE state
                   /\ status' = "running"
                   /\ pc' = 0
                   /\ nothingVerified

\* A run is started while fewer than limit runs have been.
Start(force, limit) ==
    /\ runs < limit
    /\ StartAt(force, runs + 1)

StartRun(force) == Start(force, MaxRuns)

\* Lines 229-234: the deployer is recorded, and saved, only if not yet set.
\* account is accounts[0] of line 182.
InitDeployer(account) ==
    /\ status = "running" /\ pc = 0
    /\ pc' = 1
    /\ account0' = account
    /\ IF mem.deployer = NoId
       THEN /\ mem' = updateProgress([mem EXCEPT !.deployer = account],
                                     0, NoName, NoAddr)
            /\ disk' = saveDeploymentState(mem', disk)
            /\ flagged' = flagged \cup TrueFlags(disk')
       ELSE UNCHANGED << mem, disk, flagged >>
    /\ UNCHANGED << handle, pending, status, forceRedeploy, runs,
                    made, absents, loaded, deploys, invokes, reported,
                    recovered, lastCall, cause, previous, found, verified,
                    answers, resolvedAs, edits, built, landed >>

AtStep(op) ==
    /\ status = "running"
    /\ pc \in 1..Len(Plan)
    /\ Plan[pc].op = op

\* updateProgress(step, description[, name, address]) of the plan, with its
\* save.
UpdateProgress ==
    /\ AtStep("progress")
    /\ mem' = updateProgress(mem, Plan[pc].step, Plan[pc].unit,
                             IF Plan[pc].unit = NoName THEN NoAddr
                             ELSE handle[Plan[pc].unit])
    /\ disk' = saveDeploymentState(mem', disk)
    /\ flagged' = flagged \cup TrueFlags(disk')
    /\ pc' = pc + 1
    /\ UNCHANGED << handle, pending, status, forceRedeploy, runs,
                    made, absents, loaded, deploys, invokes, reported,
                    recovered, lastCall, cause, previous, found, verified,
                    answers, resolvedAs, account0, edits, built, landed >>

\* The resolver call and deployIfNeeded up to line 160: the artifact is
\* loaded, a cached address is checked and returned or deleted, and the
\* construction transaction is submitted and confirmed.
DeployIfNeeded(resolved, code, confirmed) ==
    /\ AtStep("deploy")
    /\ pending = NoAddr
    /\ LET u == Plan[pc].unit
           address == mem.contracts[u]
           queried == ~forceRedeploy /\ address # NoAddr
           absent == queried /\ ~isContractDeployed(address, code)
           state == IF deletesCached(forceRedeploy, address, code)
                    THEN [mem EXCEPT !.contracts[u] = NoAddr]
                    ELSE mem
       IN  IF resolverThrows(resolved)
           THEN /\ Abort("resolver")
                /\ UNCHANGED << disk, mem, handle, pending, pc, made, absents,
                                deploys, reported, lastCall, answers, built >>
           ELSE /\ absents + (IF absent THEN 1 ELSE 0) <= MaxAbsent
                /\ absents' = absents + (IF absent THEN 1 ELSE 0)
                /\ reported' = IF absent THEN reported \cup {u} ELSE reported
                /\ answers' = IF queried /\ asksChain(address)
                               THEN [answers EXCEPT ![u] = code]
                               ELSE answers
                /\ IF skipsDeploy(forceRedeploy, address, code)
                   THEN /\ handle' = [handle EXCEPT ![u] = address]
                        /\ pc' = pc + 1
                        /\ UNCHANGED << disk, mem, pending, made, deploys,
                                        lastCall, status, cause, built >>
                   ELSE /\ mem' = state
                        /\ deploys' = [deploys EXCEPT ![u] = @ + 1]
                        /\ lastCall' = [kind |-> "deploy", name |-> u,
                                        units |-> Plan[pc].args,
                                        args |-> AddressesOf(Plan[pc].args),
                                        error |-> << >>,
                                        mem |-> state, disk |-> disk]
                        /\ IF confirmed
                           THEN /\ made' = [made EXCEPT ![u] = @ + 1]
                                /\ built' = [built EXCEPT ![u] =
                                       Append(@, AddressesOf(Plan[pc].args))]
                                /\ pending' = <<u, made[u] + 1>>
                                /\ UNCHANGED << status, cause >>
                           ELSE /\ Abort("deploy")
                                /\ UNCHANGED << made, pending, built >>
                        /\ UNCHANGED << disk, handle, pc >>
    /\ resolvedAs' = resolved
    /\ UNCHANGED << forceRedeploy, runs, loaded, invokes, recovered, previous,
                    found, verified, account0, edits, flagged, landed >>

\* deployIfNeeded, lines 162-166: the new address is recorded and saved.
RecordDeployed ==
    /\ AtStep("deploy")
    /\ pending # NoAddr
    /\ mem' = [mem EXCEPT !.contracts[Plan[pc].unit] = pending]
    /\ disk' = saveDeploymentState(mem', disk)
    /\ flagged' = flagged \cup TrueFlags(disk')
    /\ handle' = [handle EXCEPT ![Plan[pc].unit] = pending]
    /\ pending' = NoAddr
    /\ pc' = pc + 1
    /\ UNCHANGED << status, forceRedeploy, runs, made, absents,
                    loaded, deploys, invokes, reported, recovered, lastCall,
                    cause, previous, found, verified, answers, resolvedAs,
                    account0, edits, built, landed >>

\* A configuration action (lines 375-400, 419-435, 451-467, 469-485): skipped
\* when its flag is set, else invoked; the flag is set in memory on success
\* and on an error the action's catch block recognises.
ConfigureAction(succeeds, message) ==
    /\ AtStep("configure")
    /\ LET f == Plan[pc].flag
       IN  IF ~needsConfig(mem, f)
           THEN /\ pc' = pc + 1
                /\ UNCHANGED << mem, invokes, recovered, lastCall, status,
                                cause, landed >>
           ELSE /\ invokes' = [invokes EXCEPT ![f] = @ + 1]
                /\ lastCall' = [kind |-> "invoke", name |-> f,
                                units |-> <<Plan[pc].unit>> \o Plan[pc].args,
                                args |-> AddressesOf(<<Plan[pc].unit>>
                                                     \o Plan[pc].args),
                                error |-> IF succeeds THEN << >>
                                          ELSE message,
                                mem |-> mem, disk |-> disk]
                /\ IF succeeds \/ alreadyDone(message, Plan[pc].patterns)
                   THEN /\ mem' = [mem EXCEPT !.progress[f] = TRUE]
                        /\ recovered' = IF succeeds THEN recovered
                                        ELSE recovered \cup {f}
                        /\ landed' = [landed EXCEPT ![f] =
                               @ \cup {AddressesOf(<<Plan[pc].unit>>
                                                   \o Plan[pc].args)}]
                        /\ pc' = pc + 1
                        /\ UNCHANGED << status, cause >>
                   ELSE /\ Abort(f)
                        /\ UNCHANGED << mem, recovered, pc, landed >>
    /\ UNCHANGED << disk, handle, pending, forceRedeploy, runs,
                    made, absents, loaded, deploys, reported, previous,
                    found, verified, answers, resolvedAs, account0, edits,
                    flagged, built >>

\* Lines 490-499 and the return of main(): completed is set and saved.
CompleteRun ==
    /\ AtStep("complete")
    /\ mem' = markCompleted(mem, runs)
    /\ disk' = saveDeploymentState(mem', disk)
    /\ flagged' = flagged \cup TrueFlags(disk')
    /\ status' = "done"
    /\ pc' = pc + 1
    /\ UNCHANGED << handle, pending, forceRedeploy, runs, made,
                    absents, loaded, deploys, invokes, reported, recovered,
                    lastCall, cause, previous, found, verified, answers,
                    resolvedAs, account0, edits, built, landed >>

\* Nothing of a process that is gone is kept but the file and the chain.
Forgotten ==
    /\ mem' = deploymentState0(0)
    /\ handle' = [u \in Units |-> NoAddr]
    /\ pending' = NoAddr
    /\ pc' = 0
    /\ loaded' = NoFile
    /\ deploys' = [u \in Units |-> 0]
    /\ invokes' = [f \in Flags |-> 0]
    /\ reported' = {}
    /\ recovered' = {}
    /\ lastCall' = NoCall
    /\ previous' = "none"
    /\ forceRedeploy' = FALSE
    /\ found' = "not read"
    /\ verified' = {}
    /\ answers' = [u \in Units |-> NoAnswer]
    /\ resolvedAs' = "none"
    /\ account0' = NoId
    /\ UNCHANGED << runs, made, absents, cause, flagged, built, landed >>

\* What is left of a killed process.
Halted ==
    /\ status' = "terminated"
    /\ Forgotten
    /\ UNCHANGED edits

\* The process is killed between two steps.
Terminate ==
    /\ status = "running"
    /\ Halted
    /\ UNCHANGED disk

Next ==
    \/ \E force \in BOOLEAN : StartRun(force)
    \/ \E account \in Identities : InitDeployer(account)
    \/ UpdateProgress
    \/ \E resolved \in ResolverResults, code \in GetCodeResults,
          confirmed \in BOOLEAN : DeployIfNeeded(resolved, code, confirmed)
    \/ RecordDeployed
    \/ \E succeeds \in BOOLEAN, message \in Messages :
          ConfigureAction(succeeds, message)
    \/ CompleteRun
    \/ Terminate

Spec == Init /\ [][Next]_vars

\* The process is killed inside the writeFileSync of a save (line 85), which
\* is no atomic replacement: the file is left cut short.
TerminateInSave ==
    /\ status = "running"
    /\ \/ pc = 0 /\ mem.deployer = NoId
       \/ AtStep("progress")
       \/ AtStep("deploy") /\ pending # NoAddr
       \/ AtStep("complete")
    /\ Halted
    /\ disk' = Unreadable

NextTorn == Next \/ TerminateInSave

\* The runs of Spec and the writes a kill cuts short.
SpecTorn == Init /\ [][NextTorn]_vars

\* The units whose address an edit replaces.
EditedUnits == {"IdentityImplementation", "TREXImplementationAuthority"}

\* After a run and before the next the file, which is plain JSON, is
\* edited: the address of a unit is replaced by a string that is no
\* address.
EditFile(u) ==
    /\ status # "running"
    /\ runs < MaxRuns
    /\ edits < MaxEdits
    /\ disk # NoFile /\ disk # Unreadable
    /\ disk.contracts[u] # NoAddr /\ isAddress(disk.contracts[u])
    /\ disk' = [disk EXCEPT !.contracts[u] = InvalidAddr]
    /\ edits' = edits + 1
    /\ status' = "idle"
    /\ Forgotten

NextEdited == Next \/ \E u \in EditedUnits : EditFile(u)

\* The runs of Spec over a file that may have been edited.
SpecEdited == Init /\ [][NextEdited]_vars

\* A non-force run is started again and again, and nothing fails but the
\* chain: its queries and its deployments.
NextRetry ==
    \/ Start(FALSE, MaxRetries)
    \/ InitDeployer("0xAcc1")
    \/ UpdateProgress
    \/ \E code \in GetCodeResults, confirmed \in BOOLEAN :
          DeployIfNeeded("factory", code, confirmed)
    \/ RecordDeployed
    \/ ConfigureAction(TRUE, << >>)
    \/ CompleteRun

SpecRetry == Init /\ [][NextRetry]_vars

\* The script is started without --force again and again.  In the first
\* MaxFailing runs anything may fail and the process may be killed; from
\* then on the clock stands still, every query finds the code that is
\* there, the resolver and every deployment succeed, and an action succeeds
\* unless it has landed on the same addresses before, in which case the
\* chain rejects it.
Failing == runs <= MaxFailing

StartLive ==
    /\ StartAt(FALSE, IF runs <= MaxFailing THEN runs + 1 ELSE runs)
    /\ absents' = absents

\* What the chain answers to an action that has already landed: a message
\* the action's catch block knows, where it has one.
Rejections(patterns) ==
    {m \in Messages : patterns = {} \/ alreadyDone(m, patterns)}

InvokeOnce ==
    /\ AtStep("configure")
    /\ IF AddressesOf(<<Plan[pc].unit>> \o Plan[pc].args)
             \in landed[Plan[pc].flag]
       THEN \E message \in Rejections(Plan[pc].patterns) :
               ConfigureAction(FALSE, message)
       ELSE ConfigureAction(TRUE, << >>)

NextLive ==
    \/ StartLive
    \/ InitDeployer("0xAcc1")
    \/ UpdateProgress
    \/ /\ Failing
       /\ \E resolved \in ResolverResults, confirmed \in BOOLEAN :
             DeployIfNeeded(resolved, CodeThere, confirmed)
    \/ ~Failing /\ DeployIfNeeded("factory", CodeThere, TRUE)
    \/ RecordDeployed
    \/ /\ Failing
       /\ \E succeeds \in BOOLEAN, message \in Messages :
             ConfigureAction(succeeds, message)
    \/ ~Failing /\ InvokeOnce
    \/ CompleteRun
    \/ Failing /\ Terminate

\* A process that is running takes its next step, and a run that has ended
\* is followed by another.
SpecLive == Init /\ [][NextLive]_vars /\ WF_vars(NextLive)

\* ------------------------------------------------------------ properties
InRun == status \in {"running", "done", "aborted"}

\* A non-force run that loaded a ledger.
Resumed == InRun /\ ~forceRedeploy /\ loaded # NoFile

StepOfUnit(u) ==
    CHOOSE i \in 1..Len(Plan) : Plan[i].op = "deploy" /\ Plan[i].unit = u

StepOfFlag(f) ==
    CHOOSE i \in 1..Len(Plan) : Plan[i].op = "configure" /\ Plan[i].flag = f

\* The error messages of Messages that hold a known already-done substring
\* of the action, written out one by one.
Recognised(f) ==
    IF f = "identityFactoryConfigured"
    THEN { <<"execution", "reverted", "already", "a", "TokenFactory">> }
    ELSE IF f \in {"trexFactoryConfigured", "iaFactoryConfigured"}
    THEN { <<"factory", "already", "set">>, <<"same", "address">> }
    ELSE {}

SameLedger(state, file) ==
    /\ file # NoFile
    /\ state.contracts = file.contracts
    /\ state.progress = file.progress
    /\ state.completed = file.completed

C2_StaleStateSelfHeal ==
    Resumed
    => \A u \in Units :
          (loaded.contracts[u] # NoAddr /\ u \in reported)
          => /\ deploys[u] <= 1
             /\ handle[u] = NoAddr => mem.contracts[u] = NoAddr
             /\ handle[u] # NoAddr
                => /\ deploys[u] = 1
                   /\ handle[u] = <<u, made[u]>>
                   /\ handle[u] # loaded.contracts[u]
                   /\ mem.contracts[u] = handle[u]
                   /\ disk.contracts[u] = handle[u]

C2_Witness ==
    /\ Resumed
    /\ \E u \in Units :
          /\ loaded.contracts[u] # NoAddr /\ u \in reported
          /\ deploys[u] = 1
          /\ disk.contracts[u] = <<u, made[u]>>
          /\ disk.contracts[u] # loaded.contracts[u]

\* C3 (crash-safe resume): a non-force run over the ledger some earlier run
\* flushed, in which every query reports the cached units live, issues the
\* deploy call of a unit it has passed exactly when the loaded ledger does
\* not list the unit, and the invoke call of an action it has passed
\* exactly when the loaded flag is not set: what was flushed is not done
\* again and the step after it is.
C3_CrashSafeResume ==
    (Resumed /\ reported = {})
    => /\ \A u \in Units :
            /\ loaded.contracts[u] # NoAddr => deploys[u] = 0
            /\ (loaded.contracts[u] = NoAddr /\ pc > StepOfUnit(u))
               => deploys[u] = 1
       /\ \A f \in Flags :
            /\ loaded.progress[f] => invokes[f] = 0
            /\ (~loaded.progress[f] /\ pc > StepOfFlag(f)) => invokes[f] = 1

\* The ledger was flushed at step 3.2 and no further; the next run has not
\* invoked the version action again and has deployed TREXFactory.
C3_Witness ==
    /\ Resumed /\ reported = {}
    /\ loaded.progress.step = 32
    /\ loaded.progress["versionConfigured"]
    /\ loaded.contracts["TREXFactory"] = NoAddr
    /\ pc > StepOfUnit("TREXFactory")
    /\ invokes["versionConfigured"] = 0
    /\ deploys["TREXImplementationAuthority"] = 0
    /\ deploys["TREXFactory"] = 1

\* C4 (force reset wipes scope): every file a force run has written holds
\* only addresses that run deployed and flags of actions that run invoked.
\* The timestamp of a file is the clock of the run that wrote it.
C4_ForceResetWipes ==
    (InRun /\ forceRedeploy /\ disk # NoFile /\ disk.timestamp = runs)
    => /\ \A u \in Units :
            disk.contracts[u] # NoAddr
            => deploys[u] = 1 /\ disk.contracts[u] = <<u, made[u]>>
       /\ \A f \in Flags : disk.progress[f] => invokes[f] = 1

\* A force run has completed over a chain on which IAFactory was already
\* constructed once: the run before it had flushed eleven units and two
\* flags before that construction.
C4_Witness ==
    /\ forceRedeploy /\ status = "done"
    /\ disk.completed /\ disk.timestamp = runs
    /\ made["IAFactory"] = 2
    /\ disk.contracts["IAFactory"] = <<"IAFactory", 2>>
    /\ \A f \in Flags : disk.progress[f]

\* C5 (message-pattern recovery): once an invoke has failed with a message
\* holding a known already-done substring of its action, the flag is set,
\* the run has not aborted on that call, and the flag is in the file when
\* the next call is issued and when the run ends or aborts.
C5_MessagePatternRecovery ==
    \A f \in recovered :
        /\ mem.progress[f]
        /\ lastCall.name = f => status # "aborted"
        /\ lastCall.name # f => lastCall.disk.progress[f]
        /\ status \in {"done", "aborted"} => disk.progress[f]

\* C6 (fatal configuration error): an invoke that fails with a message
\* holding none of the action's known substrings aborts the run with the
\* action's flag false in memory and in the file, and the next run, if it
\* is a non-force run, invokes the action again once it passes its step.
C6_FatalErrorRetries ==
    /\ (lastCall.kind = "invoke" /\ lastCall.error # << >>
        /\ lastCall.error \notin Recognised(lastCall.name))
       => /\ status = "aborted"
          /\ cause = lastCall.name
          /\ ~mem.progress[lastCall.name]
          /\ ~disk.progress[lastCall.name]
    /\ (InRun /\ ~forceRedeploy /\ previous \in Flags)
       => /\ ~loaded.progress[previous]
          /\ pc > StepOfFlag(previous) => invokes[previous] = 1

C6_Witness ==
    /\ status = "running" /\ ~forceRedeploy
    /\ previous = "iaFactoryConfigured"
    /\ invokes["iaFactoryConfigured"] = 1
    /\ invokes["trexFactoryConfigured"] = 1

\* C7 (plan ordering): every deploy or invoke call that takes the address
\* of a unit is issued when the ledger, in memory and in the file, lists
\* that unit, and the argument is the address the ledger records for it.
C7_PlanOrdering ==
    lastCall.kind # "none"
    => \A i \in DOMAIN lastCall.units :
          /\ lastCall.args[i] # NoAddr
          /\ lastCall.args[i] = lastCall.mem.contracts[lastCall.units[i]]
          /\ lastCall.args[i] = lastCall.disk.contracts[lastCall.units[i]]

C7_Witness ==
    /\ lastCall.kind = "deploy" /\ lastCall.name = "TREXFactory"
    /\ pending # NoAddr
    /\ lastCall.args = << lastCall.mem.contracts["TREXImplementationAuthority"],
                          lastCall.mem.contracts["IdentityFactory"] >>

\* C8 (progress never regresses): in a non-force run, no save lowers the
\* step number the file holds.
C8_StepNeverDecreases ==
    [][ (disk # NoFile /\ disk' # disk /\ ~forceRedeploy')
        => disk'.progress.step >= disk.progress.step ]_vars

\* C9 (flush after every mutation): when a deploy or invoke call is issued,
\* and when a run that has walked the plan ends or aborts, the file equals
\* the state in memory in contracts, progress (flags included) and
\* completed.
C9_FlushedAtStepBoundary ==
    /\ lastCall.kind # "none" => SameLedger(lastCall.mem, lastCall.disk)
    /\ (status \in {"done", "aborted"} /\ pc > 0) => SameLedger(mem, disk)

\* C10 (removal flushed before redeploy): when a non-force run issues the
\* deploy call of a unit whose cached address was reported absent, the file
\* no longer lists the unit.
C10_RemovalFlushedBeforeRedeploy ==
    (Resumed /\ lastCall.kind = "deploy" /\ lastCall.name \in reported
     /\ loaded.contracts[lastCall.name] # NoAddr)
    => lastCall.disk.contracts[lastCall.name] = NoAddr

\* The units whose constructor takes the address of unit u, and the actions
\* whose call targets u or takes its address, read off the plan.
ConstructedWith(u) ==
    {v \in Units : \E i \in DOMAIN Plan[StepOfUnit(v)].args :
                      Plan[StepOfUnit(v)].args[i] = u}

ConfiguredWith(u) ==
    {f \in Flags :
        \/ Plan[StepOfFlag(f)].unit = u
        \/ \E i \in DOMAIN Plan[StepOfFlag(f)].args :
              Plan[StepOfFlag(f)].args[i] = u}

\* C11 (purge invalidates downstream): in a non-force run, once a unit the
\* loaded ledger listed has been reported absent, every unit constructed
\* with its address is deployed by the run when the run passes its step,
\* and every action that targets it or takes its address is invoked by the
\* run when the run passes its step.
C11_PurgeInvalidatesDownstream ==
    Resumed
    => \A u \in reported :
          loaded.contracts[u] # NoAddr
          => /\ \A v \in ConstructedWith(u) :
                   pc > StepOfUnit(v) => deploys[v] = 1
             /\ \A f \in ConfiguredWith(u) :
                   pc > StepOfFlag(f) => invokes[f] = 1

\* C12 (verify before acting): a non-force run that loaded a ledger not
\* completed has checked the address of every unit of that ledger, and on
\* entry, before any deploy or invoke call, memory keeps the address of
\* each unit whose query found code and lists no unit whose query did not.
C12_VerifiedBeforeFirstCall ==
    (Resumed /\ ~loaded.completed)
    => /\ verified = Cached(loaded)
       /\ pc = 0
          => /\ lastCall = NoCall
             /\ \A u \in Units : deploys[u] = 0
             /\ \A f \in Flags : invokes[f] = 0
             /\ \A u \in Cached(loaded) :
                   /\ answers[u] # NoAnswer
                   /\ mem.contracts[u] = IF answers[u] = CodeThere
                                         THEN loaded.contracts[u]
                                         ELSE NoAddr

\* The run has issued a call after checking the eleven units it loaded,
\* one of which it found gone.
C12_Witness ==
    /\ Resumed /\ ~loaded.completed
    /\ lastCall.kind = "deploy"
    /\ Cardinality(verified) = 11
    /\ reported # {}

\* C13 (completed means all done): a file that says completed lists all
\* twelve units, has all four flags set and stands at step 8, and a file
\* holds a completion time exactly when it says completed.
C13_CompletedMeansAllDone ==
    disk # NoFile
    => /\ disk.completed
          => /\ \A u \in Units : disk.contracts[u] # NoAddr
             /\ \A f \in Flags : disk.progress[f]
             /\ disk.progress.step = 80
       /\ disk.completed <=> disk.completedAt # 0

\* The second run resumed the first and completed the deployment.
C13_Witness ==
    /\ disk # NoFile /\ disk.completed
    /\ disk.completedAt = 2
    /\ Resumed /\ loaded.progress.step = 41

\* C14 (completed is terminal): a non-force run that loaded a completed
\* ledger has ended successfully at once: it has checked no address, issued
\* no deploy and no invoke call, and the file is the one it loaded.
C14_CompletedIsTerminal ==
    (InRun /\ ~forceRedeploy /\ loaded # NoFile /\ loaded.completed)
    => /\ status = "done"
       /\ pc = 0
       /\ disk = loaded
       /\ lastCall = NoCall
       /\ verified = {}
       /\ \A u \in Units : deploys[u] = 0 /\ handle[u] = NoAddr
       /\ \A f \in Flags : invokes[f] = 0

C14_Witness ==
    /\ status = "done" /\ ~forceRedeploy /\ runs = 2
    /\ loaded # NoFile /\ loaded.completed
    /\ disk.completed /\ disk.timestamp = 1

\* C15 (deploy failure): a run that aborts on a failed deployment has
\* recorded no address for the unit and has left the file as it was when
\* the deploy call was issued, and the next run, a non-force run, has
\* deployed that unit once it has passed the unit's step.
C15_DeployFailureRetried ==
    /\ (status = "aborted" /\ cause = "deploy")
       => /\ lastCall.kind = "deploy"
          /\ mem.contracts[lastCall.name] = NoAddr
          /\ handle[lastCall.name] = NoAddr
          /\ disk = lastCall.disk
    /\ (InRun /\ ~forceRedeploy /\ previous \in Units)
       => /\ loaded # NoFile
          /\ pc > StepOfUnit(previous) => deploys[previous] = 1

\* C16 (resolver failure): a resolver call that does not return a factory
\* aborts the run in that step, which issues no call and changes neither
\* memory nor the file; the file is then the ledger in memory, at the
\* progress step flushed last.
C16_ResolverFailureAborts ==
    [][ (status = "running" /\ resolvedAs' \notin {"none", "factory"})
        => /\ status' = "aborted" /\ cause' = "resolver"
           /\ disk' = disk /\ mem' = mem
           /\ made' = made /\ deploys' = deploys /\ lastCall' = lastCall
           /\ SameLedger(mem', disk')
           /\ disk'.progress.step = Plan[pc - 1].step ]_vars

\* The artifact of a unit the ledger lists lacks its interface or binary.
C16_Witness ==
    /\ Resumed /\ status = "aborted" /\ cause = "resolver"
    /\ resolvedAs = "missing abi or bytecode"
    /\ mem.contracts[Plan[pc].unit] # NoAddr
    /\ disk.contracts[Plan[pc].unit] = mem.contracts[Plan[pc].unit]

\* What the run does for a unit whose address (a) it does not trust: the
\* unit is out of memory until the run has deployed it, once, when it
\* passes its step, and the new address is then in memory and in the file.
Redeployed(u, a) ==
    /\ deploys[u] <= 1
    /\ handle[u] = NoAddr => mem.contracts[u] = NoAddr
    /\ pc > StepOfUnit(u)
       => /\ deploys[u] = 1
          /\ handle[u] = <<u, made[u]>>
          /\ handle[u] # a
          /\ mem.contracts[u] = handle[u]
          /\ disk.contracts[u] = handle[u]

\* C17 (reconciliation never aborts): a non-force run over a ledger not
\* completed aborts only on a resolver, deploy or invoke failure, and does
\* for a unit whose address is missing, is no address, or whose query
\* throws what it does for a unit whose query answers "0x" or "0x0".
C17_UnverifiableIsAbsent ==
    (Resumed /\ ~loaded.completed)
    => /\ status = "aborted" => cause \in {"resolver", "deploy"} \cup Flags
       /\ \A u \in Units :
            LET a == loaded.contracts[u]
            IN  /\ (a = NoAddr \/ a = InvalidAddr \/ answers[u] = "throws")
                   => Redeployed(u, a)
                /\ answers[u] \in {"0x", "0x0"} => Redeployed(u, a)
                /\ (a = InvalidAddr \/ answers[u] = "throws")
                   => u \in reported

\* The run has redeployed a unit whose address in the file was no address
\* and a unit whose query threw.
C17_Witness ==
    /\ Resumed
    /\ \E u, v \in Units :
          /\ loaded.contracts[u] = InvalidAddr
          /\ loaded.contracts[v] # NoAddr /\ answers[v] = "throws"
          /\ deploys[u] = 1 /\ deploys[v] = 1
          /\ disk.contracts[u] = <<u, made[u]>>
          /\ disk.contracts[v] = <<v, made[v]>>

\* The step number of the latest updateProgress before plan index i.
StepBefore(i) ==
    LET before == {j \in 1..(i - 1) : j <= Len(Plan)
                                       /\ Plan[j].op = "progress"}
    IN  IF before = {} THEN 0
        ELSE Plan[CHOOSE j \in before : \A k \in before : k <= j].step

\* The state of a run that started from nothing, as a function of how far
\* it has come, of the identity the chain reported and of the instances
\* the chain holds: the units and actions it has passed are deployed and
\* invoked once, the others not, and what the run has written to the file
\* is what memory held.
FreshRun ==
    /\ reported = {} /\ verified = {}
    /\ pc = 0 => mem = deploymentState0(runs)
    /\ pc > 0 => mem.deployer = account0
    /\ mem.timestamp = runs
    /\ mem.progress.step = StepBefore(pc)
    /\ \A u \in Units :
          IF pc > StepOfUnit(u)
          THEN /\ deploys[u] = 1
               /\ handle[u] = <<u, made[u]>>
               /\ mem.contracts[u] = handle[u]
          ELSE /\ deploys[u] = IF pc = StepOfUnit(u)
                                  /\ (pending # NoAddr \/ status = "aborted")
                                  /\ cause # "resolver"
                               THEN 1 ELSE 0
               /\ handle[u] = NoAddr
               /\ mem.contracts[u] = NoAddr
    /\ \A f \in Flags :
          IF pc > StepOfFlag(f)
          THEN invokes[f] = 1 /\ mem.progress[f]
          ELSE /\ invokes[f] = IF pc = StepOfFlag(f) /\ status = "aborted"
                               THEN 1 ELSE 0
               /\ ~mem.progress[f]
    /\ lastCall.kind # "none"
       => \A i \in DOMAIN lastCall.units :
             lastCall.args[i] = <<lastCall.units[i], made[lastCall.units[i]]>>
    /\ (disk \notin {NoFile, Unreadable} /\ disk.timestamp = runs)
       => /\ disk.deployer = mem.deployer
          /\ \A u \in Units : disk.contracts[u] \in {NoAddr, mem.contracts[u]}
          /\ \A f \in Flags : disk.progress[f] => mem.progress[f]
          /\ disk.completed = mem.completed

\* C18 (unreadable ledger is no ledger): a non-force run that finds no file,
\* or a file it cannot read or parse, does not abort on the load, has
\* loaded nothing and is a run that started from nothing.
C18_UnreadableIsFresh ==
    (InRun /\ ~forceRedeploy /\ found \in {"missing", "unreadable"})
    => /\ cause # "load"
       /\ loaded = NoFile
       /\ FreshRun

\* A run that found the file cut short has completed the deployment.
C18_Witness ==
    /\ status = "done" /\ ~forceRedeploy /\ found = "unreadable"
    /\ disk \notin {NoFile, Unreadable} /\ disk.completed
    /\ \A u \in Units : deploys[u] = 1

\* C19 (force is fresh): a force run, whatever the file holds, and a run
\* that finds no file are both a run that started from nothing: for the
\* same answers of the chain and the resolver they are in the same state,
\* have issued the same calls and have written the same ledger.
C19_ForceIsFresh ==
    (InRun /\ (forceRedeploy \/ found = "missing")) => FreshRun

\* A force run over the ledger of a run that had deployed TREXFactory has
\* deployed it again and stands after step 5.
C19_Witness ==
    /\ forceRedeploy /\ status = "running"
    /\ made["TREXFactory"] = 2
    /\ mem.progress["identityFactoryConfigured"]
    /\ disk.contracts["TREXFactory"] = <<"TREXFactory", 2>>
    /\ disk.contracts["IAFactory"] = NoAddr

\* C20 (deployer set once): in a non-force run that loaded a ledger with a
\* deployer, memory and the file keep that deployer.
C20_DeployerKept ==
    (Resumed /\ loaded.deployer # NoId)
    => /\ mem.deployer = loaded.deployer
       /\ disk.deployer = loaded.deployer

\* The run has written the file while the chain reports another account.
C20_Witness ==
    /\ Resumed /\ disk.timestamp = runs
    /\ account0 # NoId /\ account0 # loaded.deployer
    /\ disk.deployer = loaded.deployer

\* C21 (creation time set once): every ledger a non-force run that loaded a
\* ledger has written carries the timestamp of the ledger the run loaded.
C21_CreatedAtSetOnce ==
    (Resumed /\ disk \notin {NoFile, Unreadable} /\ disk # loaded)
    => disk.timestamp = loaded.timestamp

\* C22 (atomic save): whenever the file is there it is a whole ledger, also
\* after a kill inside a save, so that no non-force run finds a file it
\* cannot read and starts from nothing over it.
C22_SaveIsAtomic ==
    /\ disk # Unreadable
    /\ (InRun /\ ~forceRedeploy) => found # "unreadable"

\* The plan index of a call, and the updateProgress entry of the plan that
\* comes last before it.
StepOfCall(call) ==
    IF call.kind = "deploy" THEN StepOfUnit(call.name)
    ELSE StepOfFlag(call.name)

MarkerBefore(i) ==
    Plan[CHOOSE j \in 1..(i - 1) :
            /\ Plan[j].op = "progress"
            /\ \A k \in (j + 1)..(i - 1) : Plan[k].op # "progress"]

\* C23 (marker before the call): when a deploy or invoke call is issued,
\* the step number in the file is the one in memory and the one of the
\* latest updateProgress before the call, and that marker is the marker of
\* the step issuing the call: it does not report the deployment of a unit
\* as completed, which is the marker of that unit's step.
C23_MarkerIdentifiesStep ==
    lastCall.kind # "none"
    => /\ lastCall.disk \notin {NoFile, Unreadable}
       /\ lastCall.disk.progress.step = lastCall.mem.progress.step
       /\ lastCall.disk.progress.step = MarkerBefore(StepOfCall(lastCall)).step
       /\ MarkerBefore(StepOfCall(lastCall)).unit = NoName

Confirmed(u) == { <<u, n>> : n \in 1..made[u] }

\* C25 (address recorded after confirmation, flushed at once): every address
\* the file or memory lists for a unit is one a confirmed deploy call of
\* that unit returned; the address deployIfNeeded has returned for a unit is
\* in the file; and when a deploy or invoke call is issued every address in
\* memory is in the file.
C25_RecordedAfterConfirmation ==
    /\ \A u \in Units :
          /\ mem.contracts[u] # NoAddr => mem.contracts[u] \in Confirmed(u)
          /\ disk # NoFile
             => (disk.contracts[u] # NoAddr
                 => disk.contracts[u] \in Confirmed(u))
          /\ handle[u] # NoAddr
             => disk # NoFile /\ disk.contracts[u] = handle[u]
    /\ pending # NoAddr
       => /\ pending = <<Plan[pc].unit, made[Plan[pc].unit]>>
          /\ mem.contracts[Plan[pc].unit] = NoAddr
    /\ (status = "aborted" /\ cause = "deploy")
       => /\ mem.contracts[lastCall.name] = NoAddr
          /\ disk = lastCall.disk
    /\ lastCall.kind # "none"
       => \A u \in Units :
             lastCall.mem.contracts[u] # NoAddr
             => lastCall.disk.contracts[u] = lastCall.mem.contracts[u]

\* A resumed run has issued a call after deploying a unit: the file the call
\* saw held the new address and an address of the run before.
C25_Witness ==
    /\ Resumed /\ lastCall.kind # "none"
    /\ \E u, v \in Units :
          /\ deploys[u] = 1 /\ lastCall.name # u
          /\ lastCall.disk.contracts[u] = <<u, made[u]>>
          /\ deploys[v] = 0
          /\ lastCall.disk.contracts[v] = loaded.contracts[v]
          /\ loaded.contracts[v] # NoAddr

\* C26 (flag monotonicity): a flag that some file written since the last
\* force run began has held true is true in the file whenever the file is
\* a ledger: no save of a non-force run, and no updateProgress, drops it.
C26_FlagsNeverDropped ==
    disk \notin {NoFile, Unreadable}
    => \A f \in flagged : disk.progress[f]

\* The addresses a ledger records for a sequence of units.
Recorded(state, units) == [i \in DOMAIN units |-> state.contracts[units[i]]]

\* C27 (completed-ledger consistency): in a file that says completed, each
\* unit's address is that of an instance constructed with the addresses the
\* file records for the units its constructor takes, and each flag set is
\* that of an action invoked, or found already done, on the addresses the
\* file records for its target and its arguments.
C27_CompletedLedgerConsistent ==
    (disk \notin {NoFile, Unreadable} /\ disk.completed)
    => /\ \A v \in Units :
            /\ disk.contracts[v] \in Confirmed(v)
            /\ built[v][disk.contracts[v][2]]
                  = Recorded(disk, Plan[StepOfUnit(v)].args)
       /\ \A f \in Flags :
            disk.progress[f]
            => Recorded(disk, <<Plan[StepOfFlag(f)].unit>>
                              \o Plan[StepOfFlag(f)].args) \in landed[f]

\* C28 (eventual completion): when the script is started without --force
\* again and again, and from some run on nothing fails but an action that
\* has already landed, which the chain rejects, some run ends with completed
\* = true in the file.
C28_EventuallyCompleted ==
    <>(status = "done" /\ disk # NoFile /\ disk.completed)

====
